---- MODULE Spec2Model ----
(***************************************************************************)
(* Model of interactive_map_google_sheets.py: the geocoding cache          *)
(* (load_cache / save_cache / smart_geocode), the rate-limited lookup,     *)
(* prepare_dataframe, filter_df and the generate_map pipeline, run a       *)
(* bounded number of times over one cache file.                            *)
(*                                                                         *)
(* Coordinates are offsets in km from CENTER on a plane, so that           *)
(* CENTER = <<0, 0>> and the geodesic distance is the Euclidean one.       *)
(* Time is counted in ticks of 1/TicksPerSecond seconds.                   *)
(***************************************************************************)
EXTENDS Integers, Sequences, FiniteSets, TLC

\* ------------------------------------------------------------------ bounds
MaxRuns == 2          \* number of runs of generate_map over one cache file
TicksPerSecond == 2   \* resolution of the clock

\* --------------------------------------------------------------- constants
CENTER == <<0, 0>>
MAX_DIST_KM == 10
MIN_DELAY_SECONDS == 1    \* RateLimiter(..., min_delay_seconds=1)
MAX_RETRIES == 2          \* RateLimiter default max_retries
ERROR_WAIT_SECONDS == 5   \* RateLimiter default error_wait_seconds
DAY == 86400              \* pd.Timedelta(days=1), in seconds
CAT_UNSPECIFIED == "Ne ukazano"   \* fillna("Не указано"), transliterated

\* Python's None, also the value of an empty (falsy) result
None == <<>>
\* a missing cell of the sheet (NaN) in a text column / in the count column
NaN == "<NaN>"
NaNCount == -1
\* a created_at cell pd.to_datetime cannot parse
BadDate == -1
\* a missing lat/lon of the data frame (None stored by lines 165-166)
NaNCoord == -1000

\* ------------------------------------------------------------- input data
Row(street, house, cat, created_at, count) ==
    [street |-> street, house |-> house, category |-> cat,
     created_at |-> created_at, count |-> count]

\* The sheets fetch_sheet_df may return, each with at least one row that has a
\* street and a house. Day 1 starts at second DAY.
SampleSheets ==
    << << Row("A", "1", "water", DAY, 3), Row("A", "1", "sewage", 2 * DAY - 1, 5) >>,
       << Row("A", "1", "water", 2 * DAY, 1), Row("B", "2", NaN, DAY + 5, NaNCount) >>,
       << Row(NaN, "7", "water", DAY, 1), Row("B", "2", "water", DAY + 7, 4),
          Row("A ", "1", "water", DAY - 1, -2) >>,
       << Row("A", "1", "water", BadDate, 1), Row("B", "2", "water", DAY + 7, 4) >>,
       << Row("A_1", "2", "water", DAY, 1), Row("A", "1_2", "water", DAY + 1, 2) >> >>

\* The (date_from, date_to, categories) arguments of a run; dates are day numbers.
SampleCriteria ==
    { [date_from |-> 1, date_to |-> 1, cats |-> {}],
      [date_from |-> 1, date_to |-> 2, cats |-> {"water"}] }

\* What the external geocoder can answer for an address: a place, or no match.
Places == { <<0, 0>>, <<6, 8>>, <<8, 8>>, <<0, 50>> }

\* ------------------------------------------------------ prepare_dataframe
notna_street_house(r) == r.street # NaN /\ r.house # NaN

\* df[df[COL_STREET].notna() & df[COL_HOUSE].notna()]
RECURSIVE drop_missing_address(_)
drop_missing_address(rows) ==
    IF rows = << >> THEN << >>
    ELSE IF notna_street_house(Head(rows))
         THEN << Head(rows) >> \o drop_missing_address(Tail(rows))
         ELSE drop_missing_address(Tail(rows))

\* pd.to_datetime raises on a value it cannot parse
to_datetime_raises(df_raw) ==
    \E n \in 1..Len(df_raw) : notna_street_house(df_raw[n]) /\ df_raw[n].created_at = BadDate

prepare_row(r) ==
    [r EXCEPT !.count = IF r.count = NaNCount THEN 0 ELSE r.count,
              !.category = IF r.category = NaN THEN CAT_UNSPECIFIED ELSE r.category]

prepare_dataframe(df_raw) ==
    LET kept == drop_missing_address(df_raw)
    IN  [n \in 1..Len(kept) |-> prepare_row(kept[n])]

\* ------------------------------------------------------------ the cache
\* A Python dict: the sequence of its (key, value) items in insertion order.
\* A value is a coordinate <<lat, lon>> or None.
cache_keys(c) == { c[n][1] : n \in 1..Len(c) }

\* mutant: the cache never answers
cache_has_never(c, k) == FALSE

\* mutant: a stored None counts as a miss (if cache.get(key))
cache_has_truthy(c, k) == k \in cache_keys(c) /\ \E n \in 1..Len(c) : c[n][1] = k /\ c[n][2] # << >>

\* key in cache
cache_has(c, k) == k \in cache_keys(c)

\* c[k], for a key of c
cache_get(c, k) == c[CHOOSE n \in 1..Len(c) : c[n][1] = k][2]

\* mutant: the dict is replaced by one that holds the new item only (cache = {key: v})
cache_put_replace_all(c, k, v) == << << k, v >> >>

\* c[k] = v: replaces the value of an existing key in place, appends a new key
cache_put(c, k, v) ==
    IF cache_has(c, k)
    THEN [n \in 1..Len(c) |-> IF c[n][1] = k THEN << k, v >> ELSE c[n]]
    ELSE Append(c, << k, v >>)

\* key = f"{street}_{house}"
address_key(street, house) == street \o "_" \o house

\* address = f"{street}, {house}, <town, region, country>"
address(street, house) == street \o ", " \o house \o ", Zelenodolsk, Tatarstan, Russia"

\* geodesic(CENTER, (lat, lon)).km <= MAX_DIST_KM, on the plane
within_max_dist(loc) ==
    (loc[1] - CENTER[1]) * (loc[1] - CENTER[1]) + (loc[2] - CENTER[2]) * (loc[2] - CENTER[2])
        <= MAX_DIST_KM * MAX_DIST_KM

\* mutant: the distance check is left out
geocode_value_unchecked(loc) == IF loc # None THEN << loc[1], loc[2] >> ELSE None

\* The value smart_geocode stores for the answer loc of geocode_fn
\* (a place, or None for no match and for a swallowed error).
geocode_value(loc) ==
    IF loc # None /\ within_max_dist(loc) THEN << loc[1], loc[2] >> ELSE None

\* ------------------------------------------------------ pickle.dump / load
Tok(op, s, x) == [op |-> op, s |-> s, x |-> x]

\* mutant: the latitude is written twice
dump_value_lat_twice(v) ==
    IF v = None THEN << Tok("NONE", "", 0) >>
    ELSE << Tok("BINFLOAT", "", v[1]), Tok("BINFLOAT", "", v[1]), Tok("TUPLE2", "", 0) >>

\* the pickled value: None, or a tuple of two floats
dump_value(v) ==
    IF v = None THEN << Tok("NONE", "", 0) >>
    ELSE << Tok("BINFLOAT", "", v[1]), Tok("BINFLOAT", "", v[2]), Tok("TUPLE2", "", 0) >>

RECURSIVE dump_items(_)
dump_items(c) ==
    IF c = << >> THEN << >>
    ELSE << Tok("BINUNICODE", c[1][1], 0) >> \o dump_value(c[1][2]) \o dump_items(Tail(c))

\* pickle.dump(cache, f): the opcodes written for a dict. One item is stored with
\* SETITEM, several with MARK ... SETITEMS.
pickle_dump(c) ==
    << Tok("PROTO", "", 0), Tok("EMPTY_DICT", "", 0) >>
    \o (IF Len(c) = 0 THEN << >>
        ELSE IF Len(c) = 1 THEN dump_items(c) \o << Tok("SETITEM", "", 0) >>
        ELSE << Tok("MARK", "", 0) >> \o dump_items(c) \o << Tok("SETITEMS", "", 0) >>)
    \o << Tok("STOP", "", 0) >>

\* The unpickler's stack holds items [k |-> kind, v |-> value].
Item(k, v) == [k |-> k, v |-> v]

\* index of the topmost MARK of the stack, 0 if there is none
top_mark(st) ==
    IF \E n \in 1..Len(st) : st[n].k = "mark"
    THEN CHOOSE n \in 1..Len(st) : st[n].k = "mark" /\ \A m \in (n + 1)..Len(st) : st[m].k # "mark"
    ELSE 0

\* d[k] = v for the key/value items kv (k1, v1, k2, v2, ...), in order
RECURSIVE set_items(_, _)
set_items(d, kv) ==
    IF Len(kv) < 2 THEN d
    ELSE set_items(cache_put(d, kv[1].v, kv[2].v), Tail(Tail(kv)))

Failed == [ok |-> FALSE, store |-> << >>]

\* The unpickling machine: reads opcodes with a stack; running out of data before
\* STOP raises (EOFError / UnpicklingError), as does a malformed stream.
RECURSIVE unpickle(_, _)
unpickle(data, st) ==
    IF data = << >> THEN Failed
    ELSE
      LET t == Head(data)
          rest == Tail(data)
          n == Len(st)
      IN  CASE t.op = "PROTO" -> unpickle(rest, st)
            [] t.op = "EMPTY_DICT" -> unpickle(rest, Append(st, Item("dict", << >>)))
            [] t.op = "MARK" -> unpickle(rest, Append(st, Item("mark", << >>)))
            [] t.op = "BINUNICODE" -> unpickle(rest, Append(st, Item("str", t.s)))
            [] t.op = "BINFLOAT" -> unpickle(rest, Append(st, Item("float", t.x)))
            [] t.op = "NONE" -> unpickle(rest, Append(st, Item("val", None)))
            [] t.op = "TUPLE2" ->
                 IF n < 2 THEN Failed
                 ELSE unpickle(rest, Append(SubSeq(st, 1, n - 2),
                                            Item("val", << st[n - 1].v, st[n].v >>)))
            [] t.op = "SETITEM" ->
                 IF n < 3 \/ st[n - 2].k # "dict" THEN Failed
                 ELSE unpickle(rest, Append(SubSeq(st, 1, n - 3),
                          Item("dict", cache_put(st[n - 2].v, st[n - 1].v, st[n].v))))
            [] t.op = "SETITEMS" ->
                 LET m == top_mark(st)
                 IN  IF m < 2 \/ st[m - 1].k # "dict" THEN Failed
                     ELSE unpickle(rest, Append(SubSeq(st, 1, m - 2),
                              Item("dict", set_items(st[m - 1].v, SubSeq(st, m + 1, n)))))
            [] t.op = "STOP" ->
                 IF n = 0 THEN Failed ELSE [ok |-> TRUE, store |-> st[n].v]
            [] OTHER -> Failed

pickle_load(data) == unpickle(data, << >>)

\* ---------------------------------------------------------------- filter_df
\* mutant: the end of the range is date_to 00:00:00
filter_mask_start_of_day(r, date_from, date_to, cats) ==
    /\ r.created_at >= date_from * DAY
    /\ r.created_at <= date_to * DAY
    /\ (cats # {} => r.category \in cats)

\* mutant: the categories are not looked at
filter_mask_no_cats(r, date_from, date_to, cats) ==
    /\ r.created_at >= date_from * DAY
    /\ r.created_at <= date_to * DAY + DAY - 1

\* the mask of line 114, with the category condition of lines 115-116
filter_mask(r, date_from, date_to, cats) ==
    /\ r.created_at >= date_from * DAY
    /\ r.created_at <= date_to * DAY + DAY - 1
    /\ (cats # {} => r.category \in cats)

RECURSIVE filter_df(_, _, _, _)
filter_df(df, date_from, date_to, cats) ==
    IF df = << >> THEN << >>
    ELSE IF filter_mask(Head(df), date_from, date_to, cats)
         THEN << Head(df) >> \o filter_df(Tail(df), date_from, date_to, cats)
         ELSE filter_df(Tail(df), date_from, date_to, cats)

\* mutant: no row is dropped
dropna_nothing(df) == df

\* df.dropna(subset=["lat", "lon"])
RECURSIVE dropna_lat_lon(_)
dropna_lat_lon(df) ==
    IF df = << >> THEN << >>
    ELSE IF Head(df).lat # NaNCoord /\ Head(df).lon # NaNCoord
         THEN << Head(df) >> \o dropna_lat_lon(Tail(df))
         ELSE dropna_lat_lon(Tail(df))

\* ------------------------------------------------------------------ state
VARIABLES
    pc,         \* where generate_map is: "idle" (no process), "apply", "sleep", "call", "save", "render"
    runs,       \* number of runs started so far
    sheet,      \* index in SampleSheets of the sheet fetched by this run
    crit,       \* the (date_from, date_to, categories) arguments of this run
    i,          \* index of the row df.apply is at
    coords,     \* the results of smart_geocode for the rows before i
    cache,      \* the dict `cache` of generate_map
    loaded,     \* the dict as load_cache returned it at the start of this run
    disk,       \* the file GEOCACHE_FILE: whether it exists and the opcodes in it
    elapsed,    \* clock() - _last_call of the RateLimiter in ticks (saturating), NoCall before the first call
    tries,      \* number of failed attempts of the current geocode_fn call
    output,     \* whether the map was built and saved by this run, and the rows given to build_map
    last_exit,  \* how the last process ended
    lookups,    \* per key, the number of geocode_fn calls made by smart_geocode in all runs
    given,      \* per key, the resolutions smart_geocode has returned for it in all runs
    outcome     \* per key, how its last geocode_fn call ended

vars == << pc, runs, sheet, crit, i, coords, cache, loaded, disk, elapsed, tries, output,
           last_exit, lookups, given, outcome >>

NoCall == -1
MinDelayTicks == MIN_DELAY_SECONDS * TicksPerSecond
ErrorWaitTicks == ERROR_WAIT_SECONDS * TicksPerSecond
\* elapsed times of MinDelayTicks and more are not told apart
saturate(t) == IF t > MinDelayTicks THEN MinDelayTicks ELSE t

NoFile == [exists |-> FALSE, data |-> << >>]
NoOutput == [saved |-> FALSE, points |-> << >>]

\* the prepared data frame of this run
df == prepare_dataframe(SampleSheets[sheet])

row_key(n) == address_key(df[n].street, df[n].house)

AllKeys ==
    UNION { { address_key(r.street, r.house) :
                r \in { prepare_dataframe(SampleSheets[s])[n] :
                          n \in 1..Len(prepare_dataframe(SampleSheets[s])) } } :
            s \in 1..Len(SampleSheets) }

\* mutant: the file is opened without the exists() test
load_cache_no_exists_test(file) == pickle_load(file.data)

\* load_cache(path)
load_cache(file) ==
    IF file.exists THEN pickle_load(file.data) ELSE [ok |-> TRUE, store |-> << >>]

\* save_cache(cache, path): the file after a completed open / dump / close
save_cache(c) == [exists |-> TRUE, data |-> pickle_dump(c)]

\* lines 165-166: c[0] if c else None, c[1] if c else None
with_lat_lon(rows, cs) ==
    [n \in 1..Len(rows) |->
        [street |-> rows[n].street, house |-> rows[n].house, category |-> rows[n].category,
         created_at |-> rows[n].created_at, count |-> rows[n].count,
         lat |-> IF cs[n] # None THEN cs[n][1] ELSE NaNCoord,
         lon |-> IF cs[n] # None THEN cs[n][2] ELSE NaNCoord]]

\* pc after the row at i: the next row, or save_cache after the last one
after_row == IF i >= Len(df) THEN "save" ELSE "apply"

Init ==
    /\ pc = "idle"
    /\ runs = 0
    /\ sheet = 1
    /\ crit \in SampleCriteria
    /\ i = 1
    /\ coords = << >>
    /\ cache = << >>
    /\ loaded = << >>
    /\ disk = NoFile
    /\ elapsed = NoCall
    /\ tries = 0
    /\ output = NoOutput
    /\ last_exit = "none"
    /\ lookups = [k \in AllKeys |-> 0]
    /\ given = [k \in AllKeys |-> {}]
    /\ outcome = [k \in AllKeys |-> "none"]

\* generate_map up to df.apply: fetch, prepare, load_cache, a new RateLimiter
StartRun(s, c) ==
    /\ pc = "idle"
    /\ runs < MaxRuns
    /\ ~ to_datetime_raises(SampleSheets[s])
    /\ load_cache(disk).ok
    /\ runs' = runs + 1
    /\ sheet' = s
    /\ crit' = c
    /\ cache' = load_cache(disk).store
    /\ loaded' = load_cache(disk).store
    /\ i' = 1
    /\ coords' = << >>
    /\ elapsed' = NoCall
    /\ tries' = 0
    /\ output' = NoOutput
    /\ last_exit' = "running"
    /\ pc' = "apply"
    /\ UNCHANGED << disk, lookups, given, outcome >>

\* prepare_dataframe raises at pd.to_datetime: the run ends before load_cache
StartRunPrepareFails(s, c) ==
    /\ pc = "idle"
    /\ runs < MaxRuns
    /\ to_datetime_raises(SampleSheets[s])
    /\ runs' = runs + 1
    /\ sheet' = s
    /\ crit' = c
    /\ output' = NoOutput
    /\ i' = 1
    /\ coords' = << >>
    /\ last_exit' = "prepare_failed"
    /\ UNCHANGED << pc, cache, loaded, disk, elapsed, tries, lookups, given, outcome >>

\* smart_geocode, lines 84-86: the key is in the cache
SmartGeocodeHit ==
    /\ pc = "apply"
    /\ cache_has(cache, row_key(i))
    /\ coords' = Append(coords, cache_get(cache, row_key(i)))
    /\ given' = [given EXCEPT ![row_key(i)] = @ \cup { cache_get(cache, row_key(i)) }]
    /\ i' = i + 1
    /\ pc' = after_row
    /\ UNCHANGED << loaded, runs, sheet, crit, cache, disk, elapsed, tries, output, last_exit,
                    lookups, outcome >>

\* smart_geocode, lines 88-89: a miss, geocode_fn(address) is called
SmartGeocodeMiss ==
    /\ pc = "apply"
    /\ ~ cache_has(cache, row_key(i))
    /\ lookups' = [lookups EXCEPT ![row_key(i)] = @ + 1]
    /\ tries' = 0
    /\ pc' = "sleep"
    /\ UNCHANGED << loaded, runs, sheet, crit, i, coords, cache, disk, elapsed, output, last_exit,
                    given, outcome >>

\* mutant: the limiter does not wait
sleep_between_never(e) == e

\* RateLimiter: the time since the last call once the limiter has slept
\* max(0, min_delay_seconds - (clock() - _last_call))
sleep_between(e) == IF e = NoCall THEN NoCall ELSE IF e < MinDelayTicks THEN MinDelayTicks ELSE e

RateLimiterSleep ==
    /\ pc = "sleep"
    /\ elapsed' = sleep_between(elapsed)
    /\ pc' = "call"
    /\ UNCHANGED << loaded, runs, sheet, crit, i, coords, cache, disk, tries, output, last_exit,
                    lookups, given, outcome >>

\* how a lookup that answered loc is remembered
answer_kind(loc) ==
    IF loc = None THEN "no_match" ELSE IF within_max_dist(loc) THEN "found" ELSE "out_of_region"

\* smart_geocode, lines 90-94, once geocode_fn has returned loc
Store(loc, kind) ==
    /\ cache' = cache_put(cache, row_key(i), geocode_value(loc))
    /\ coords' = Append(coords, cache_get(cache', row_key(i)))
    /\ given' = [given EXCEPT ![row_key(i)] = @ \cup { cache_get(cache', row_key(i)) }]
    /\ outcome' = [outcome EXCEPT ![row_key(i)] = kind]
    /\ i' = i + 1
    /\ pc' = after_row

\* the external lookup answers: a place or no match
ExternalCallAnswers(loc) ==
    /\ pc = "call"
    /\ elapsed' = 0
    /\ Store(loc, answer_kind(loc))
    /\ UNCHANGED << loaded, runs, sheet, crit, disk, tries, output, last_exit, lookups >>

\* the external lookup fails (timeout, service error) and the RateLimiter retries
\* after error_wait_seconds
ExternalCallFailsRetry ==
    /\ pc = "call"
    /\ tries < MAX_RETRIES
    /\ tries' = tries + 1
    /\ elapsed' = saturate(ErrorWaitTicks)
    /\ pc' = "sleep"
    /\ UNCHANGED << loaded, runs, sheet, crit, i, coords, cache, disk, output, last_exit,
                    lookups, given, outcome >>

\* the last attempt fails: the RateLimiter swallows the exception and returns None
ExternalCallFailsLast ==
    /\ pc = "call"
    /\ tries = MAX_RETRIES
    /\ elapsed' = 0
    /\ Store(None, "transient")
    /\ UNCHANGED << loaded, runs, sheet, crit, disk, tries, output, last_exit, lookups >>

\* time passes between two rows
Tick ==
    /\ pc = "apply"
    /\ elapsed # NoCall
    /\ elapsed < MinDelayTicks
    /\ elapsed' = elapsed + 1
    /\ UNCHANGED << loaded, pc, runs, sheet, crit, i, coords, cache, disk, tries, output, last_exit,
                    lookups, given, outcome >>

\* line 167
SaveCache ==
    /\ pc = "save"
    /\ disk' = save_cache(cache)
    /\ pc' = "render"
    /\ UNCHANGED << loaded, runs, sheet, crit, i, coords, cache, elapsed, tries, output, last_exit,
                    lookups, given, outcome >>

\* the rows generate_map hands to build_map, lines 165-171
rendered_rows(rows, cs, c) ==
    filter_df(dropna_lat_lon(with_lat_lon(rows, cs)), c.date_from, c.date_to, c.cats)

\* lines 169-176: dropna, filter_df, build_map, m.save
Render ==
    /\ pc = "render"
    /\ output' = [saved |-> TRUE, points |-> rendered_rows(df, coords, crit)]
    /\ last_exit' = "ok"
    /\ pc' = "idle"
    /\ UNCHANGED << loaded, runs, sheet, crit, i, coords, cache, disk, elapsed, tries,
                    lookups, given, outcome >>

Next ==
    \/ \E s \in 1..Len(SampleSheets), c \in SampleCriteria : StartRun(s, c)
    \/ \E s \in 1..Len(SampleSheets), c \in SampleCriteria : StartRunPrepareFails(s, c)
    \/ SmartGeocodeHit
    \/ SmartGeocodeMiss
    \/ RateLimiterSleep
    \/ \E loc \in Places \cup { None } : ExternalCallAnswers(loc)
    \/ ExternalCallFailsRetry
    \/ ExternalCallFailsLast
    \/ Tick
    \/ SaveCache
    \/ Render

Spec == Init /\ [][Next]_vars

\* ----------------------------------------------------------------- faults
\* The process is aborted during df.apply (killed, interrupted, or an exception
\* the RateLimiter does not swallow): line 167 is never reached.
\* The variables of a process that has ended keep their last values until the next
\* run starts.
Abort ==
    /\ pc \in { "apply", "sleep", "call" }
    /\ last_exit' = "aborted"
    /\ pc' = "idle"
    /\ UNCHANGED << runs, sheet, crit, i, coords, cache, loaded, disk, elapsed, tries, output,
                    lookups, given, outcome >>

\* The process dies inside save_cache: open(path, "wb") has truncated the file and
\* only the first n opcodes of the dump have reached it.
CrashInSave(n) ==
    /\ pc = "save"
    /\ n < Len(pickle_dump(cache))
    /\ disk' = [exists |-> TRUE, data |-> SubSeq(pickle_dump(cache), 1, n)]
    /\ last_exit' = "crashed_in_save"
    /\ pc' = "idle"
    /\ UNCHANGED << runs, sheet, crit, i, coords, cache, loaded, elapsed, tries, output,
                    lookups, given, outcome >>

\* open(path, "wb") raises (OSError): the exception leaves save_cache and generate_map
SaveFails ==
    /\ pc = "save"
    /\ last_exit' = "save_failed"
    /\ pc' = "idle"
    /\ UNCHANGED << runs, sheet, crit, i, coords, cache, loaded, disk, elapsed, tries, output,
                    lookups, given, outcome >>

\* pickle.load raises on the file: the exception leaves load_cache and generate_map
StartRunLoadFails(s, c) ==
    /\ pc = "idle"
    /\ runs < MaxRuns
    /\ ~ to_datetime_raises(SampleSheets[s])
    /\ ~ load_cache(disk).ok
    /\ runs' = runs + 1
    /\ sheet' = s
    /\ crit' = c
    /\ output' = NoOutput
    /\ i' = 1
    /\ coords' = << >>
    /\ last_exit' = "load_failed"
    /\ UNCHANGED << pc, cache, loaded, disk, elapsed, tries, lookups, given, outcome >>

NextFault ==
    \/ Next
    \/ Abort
    \/ \E n \in 0..(Len(pickle_dump(cache)) - 1) : CrashInSave(n)
    \/ SaveFails
    \/ \E s \in 1..Len(SampleSheets), c \in SampleCriteria : StartRunLoadFails(s, c)

\* the runs with process aborts, crashes and write failures
SpecFault == Init /\ [][NextFault]_vars

\* ------------------------------------------------- a deterministic geocoder
\* A geocoder that never fails and answers every address the same way each time.
World(addr) ==
    CASE addr = address("A", "1") -> << 6, 8 >>
      [] addr = address("B", "2") -> << 0, 50 >>
      [] addr = address("A_1", "2") -> << 0, 0 >>
      [] addr = address("A", "1_2") -> << 6, 8 >>
      [] OTHER -> None

\* line 89 with that geocoder
ExternalCallWorld == ExternalCallAnswers(World(address(df[i].street, df[i].house)))

NextDet ==
    \/ \E s \in 1..Len(SampleSheets), c \in SampleCriteria : StartRun(s, c)
    \/ \E s \in 1..Len(SampleSheets), c \in SampleCriteria : StartRunPrepareFails(s, c)
    \/ SmartGeocodeHit
    \/ SmartGeocodeMiss
    \/ RateLimiterSleep
    \/ ExternalCallWorld
    \/ Tick
    \/ SaveCache
    \/ Render

\* the runs with the deterministic, never-failing geocoder
SpecDet == Init /\ [][NextDet]_vars

\* ------------------------------------------------------------------ claims
resolved_ok(v) == v = None \/ within_max_dist(v)

\* C1: over all rows of all runs that share the cache file, smart_geocode calls
\* geocode_fn at most once for each key, and all rows of a key are given the same
\* resolution (one coordinate, or None).
C1_OneLookupPerKey ==
    \A k \in AllKeys : lookups[k] <= 1 /\ Cardinality(given[k]) <= 1

\* A second run that made no external call, has resolved both rows of key A_1 from
\* the persisted cache, the one lookup of A_1 having been made by the first run.
C1_Witness ==
    /\ runs = 2 /\ pc = "save" /\ sheet = 1 /\ Len(coords) = 2
    /\ elapsed = NoCall
    /\ lookups["A_1"] = 1
    /\ given["A_1"] = { << 6, 8 >> }

\* C2: a key whose lookup failed transiently (the last attempt timed out) has no
\* entry in the cache, neither in memory nor in the file.
C2_TransientLeavesNoEntry ==
    \A k \in AllKeys :
        outcome[k] = "transient" =>
            /\ k \notin cache_keys(cache)
            /\ k \notin cache_keys(load_cache(disk).store)

\* C3: every coordinate returned by smart_geocode, held in the cache or stored in
\* the file lies within MAX_DIST_KM of CENTER.
C3_ResolvedWithinMaxDist ==
    /\ \A n \in 1..Len(cache) : resolved_ok(cache[n][2])
    /\ \A n \in 1..Len(coords) : resolved_ok(coords[n])
    /\ LET stored == load_cache(disk).store
       IN  \A n \in 1..Len(stored) : resolved_ok(stored[n][2])
    /\ \A k \in AllKeys : \A v \in given[k] : resolved_ok(v)

\* The lookups have answered a place on the boundary, which is cached, and a place
\* 50 km away, which is not.
C3_Witness ==
    /\ "A_1" \in cache_keys(cache) /\ cache_get(cache, "A_1") = << 6, 8 >>
    /\ outcome["B_2"] = "out_of_region"
    /\ "B_2" \in cache_keys(cache) /\ cache_get(cache, "B_2") = None
    /\ pc = "render"

C4_Cached ==
    \A k \in AllKeys :
        outcome[k] = "out_of_region" =>
            /\ k \in cache_keys(cache) /\ cache_get(cache, k) = None
            /\ (pc \in { "render", "idle" } =>
                   /\ k \in cache_keys(load_cache(disk).store)
                   /\ cache_get(load_cache(disk).store, k) = None)
            /\ \A n \in 1..Len(output.points) :
                   address_key(output.points[n].street, output.points[n].house) # k

C4_NoLaterLookup ==
    \A k \in AllKeys : outcome[k] = "out_of_region" => lookups'[k] = lookups[k]

\* C4: once the lookup of a key has answered a place farther than MAX_DIST_KM, the
\* key is in the cache as None (in the file too once the run has saved), no row of
\* the key is handed to build_map, and geocode_fn is never called for the key again.
C4_OutOfRegionIsDurable == [] C4_Cached /\ [][C4_NoLaterLookup]_vars

\* A second run has met again, and skipped, a key the first run found out of region.
C4_Witness ==
    /\ runs = 2 /\ pc = "idle" /\ last_exit = "ok" /\ sheet = 3
    /\ elapsed = NoCall
    /\ outcome["B_2"] = "out_of_region"
    /\ output.saved

\* C5: every row handed to build_map has a latitude and a longitude, and the
\* coordinate lies within MAX_DIST_KM of CENTER.
C5_RenderedRowsHaveValidCoordinate ==
    \A n \in 1..Len(output.points) :
        /\ output.points[n].lat # NaNCoord
        /\ output.points[n].lon # NaNCoord
        /\ within_max_dist(<< output.points[n].lat, output.points[n].lon >>)

\* A second run, resolving from the persisted cache alone, has rendered one row of
\* its sheet and dropped a row whose key is cached as None.
C5_Witness ==
    /\ runs = 2 /\ output.saved /\ elapsed = NoCall /\ sheet = 2
    /\ Len(output.points) = 1
    /\ cache_get(cache, "B_2") = None

\* C6: after a crash inside save_cache the file loads to the mapping that was
\* persisted before, or to the complete new one.
C6_CrashInSaveIsAtomic ==
    last_exit = "crashed_in_save" =>
        /\ load_cache(disk).ok
        /\ load_cache(disk).store \in { loaded, cache }

\* C7: after a run aborted during df.apply, every entry the run had in its cache is
\* in the file and found by load_cache.
C7_AbortKeepsEntries ==
    last_exit = "aborted" =>
        /\ load_cache(disk).ok
        /\ \A n \in 1..Len(cache) :
               /\ cache[n][1] \in cache_keys(load_cache(disk).store)
               /\ cache_get(load_cache(disk).store, cache[n][1]) = cache[n][2]

\* C8: a run whose save_cache failed has still built and saved the map.
C8_SaveFailureStillRenders ==
    last_exit = "save_failed" => output.saved

\* C9: load_cache after save_cache returns the store that was saved: for every
\* cache the program holds, and for the file once line 167 has run.
C9_LoadAfterSave ==
    /\ LET again == load_cache(save_cache(cache))
       IN  again.ok /\ again.store = cache
    /\ pc = "render" => LET stored == load_cache(disk)
                        IN  stored.ok /\ stored.store = cache

\* A saved store with a resolved key, an unresolved key and an absent key.
C9_Witness ==
    /\ pc = "render"
    /\ "A_1" \in cache_keys(cache) /\ cache_get(cache, "A_1") = << 6, 8 >>
    /\ "B_2" \in cache_keys(cache) /\ cache_get(cache, "B_2") = None
    /\ "A_1_2" \notin cache_keys(cache)
    /\ load_cache(disk).store = cache

\* C10: whenever the external lookup is about to be called and was called before in
\* the run, at least MIN_DELAY_SECONDS have passed since the start of that call.
C10_MinDelayBetweenCalls ==
    pc = "call" => elapsed = NoCall \/ elapsed >= MinDelayTicks

\* The call after a lookup whose three attempts failed: the limiter has slept.
C10_Witness ==
    /\ pc = "call" /\ tries = 0 /\ elapsed = MinDelayTicks
    /\ \E k \in AllKeys : outcome[k] = "transient" /\ k \in cache_keys(cache) \ cache_keys(loaded)

\* the rows of this run that have a coordinate: what filter_df is given at line 171
resolved_rows == dropna_lat_lon(with_lat_lon(df, coords))

\* created_at lies on a day of date_from..date_to
in_day_range(r) == r.created_at >= crit.date_from * DAY /\ r.created_at < (crit.date_to + 1) * DAY

in_categories(r) == crit.cats = {} \/ r.category \in crit.cats

\* C11: a row given to filter_df is retained exactly if its created_at is not before
\* date_from 00:00:00 and not after date_to 23:59:59 (and its category passes).
C11_FilterDateBoundsInclusive ==
    output.saved =>
        LET given_rows == resolved_rows
        IN  \A n \in 1..Len(given_rows) :
                (\E j \in 1..Len(output.points) : output.points[j] = given_rows[n])
                    <=> (in_day_range(given_rows[n]) /\ in_categories(given_rows[n]))

\* A run over day 1 alone has kept the row of day 1 00:00:00 and the row of day 1
\* 23:59:59.
C11_Witness ==
    /\ output.saved /\ sheet = 1 /\ crit.date_from = 1 /\ crit.date_to = 1
    /\ Len(output.points) = 2
    /\ output.points[1].created_at = DAY
    /\ output.points[2].created_at = 2 * DAY - 1

\* the indices of the rows of the date range whose category passes
kept_rows(rows) == { n \in 1..Len(rows) : in_day_range(rows[n]) /\ in_categories(rows[n]) }

\* the j-th smallest element of the set of indices S
nth(S, j) == CHOOSE n \in S : Cardinality({ m \in S : m < n }) = j - 1

\* C12: of the rows in the date range filter_df returns those whose category is in
\* the set (all of them when the set is empty), each unchanged, in their order.
C12_FilterCategories ==
    output.saved =>
        LET given_rows == resolved_rows
            kept == kept_rows(given_rows)
        IN  /\ Len(output.points) = Cardinality(kept)
            /\ \A j \in 1..Len(output.points) : output.points[j] = given_rows[nth(kept, j)]

\* From a water row with count 3 and a sewage row with count 5, both in the date
\* range, the filter {"water"} has kept the water row with its count.
C12_Witness ==
    /\ output.saved /\ sheet = 1 /\ crit.cats = { "water" }
    /\ Len(resolved_rows) = 2
    /\ \A n \in 1..2 : in_day_range(resolved_rows[n])
    /\ Len(output.points) = 1
    /\ output.points[1].category = "water" /\ output.points[1].count = 3

\* C13: a run over a sheet with an unparseable timestamp does not abort: it ends
\* with the map built from the remaining rows.
C13_BadTimestampRowIsSkipped ==
    (runs > 0 /\ pc = "idle" /\ to_datetime_raises(SampleSheets[sheet])) =>
        last_exit = "ok" /\ output.saved

\* the (street, house) pairs of the sheets
AllPairs ==
    UNION { { << r.street, r.house >> :
                r \in { prepare_dataframe(SampleSheets[s])[n] :
                          n \in 1..Len(prepare_dataframe(SampleSheets[s])) } } :
            s \in 1..Len(SampleSheets) }

\* the strings that strip to t, among those with one blank
padded(t) == { t, t \o " ", " " \o t }

same_but_whitespace(a, b) ==
    \E t \in { p[1] : p \in AllPairs } \cup { p[2] : p \in AllPairs } :
        a \in padded(t) /\ b \in padded(t)

\* C14: two (street, house) pairs that differ in leading or trailing whitespace only
\* have one cache entry and cause one external lookup at most.
C14_KeyIgnoresWhitespace ==
    \A p, q \in AllPairs :
        (same_but_whitespace(p[1], q[1]) /\ same_but_whitespace(p[2], q[2])) =>
            LET kp == address_key(p[1], p[2])
                kq == address_key(q[1], q[2])
            IN  /\ ({ kp, kq } \subseteq cache_keys(cache) => kp = kq)
                /\ (kp # kq => lookups[kp] + lookups[kq] <= 1)

\* C15: every row of the prepared frame has a street and a house, a count >= 0 (0
\* for a missing count) and its category or the sentinel for a missing one; the
\* rows without street or house are not in the frame and have no cache entry.
C15_PreparedRows ==
    LET raw == SampleSheets[sheet]
        kept == drop_missing_address(raw)
    IN  /\ Len(df) = Len(kept)
        /\ \A n \in 1..Len(df) :
              /\ df[n].street # NaN /\ df[n].house # NaN
              /\ df[n].street = kept[n].street /\ df[n].house = kept[n].house
              /\ df[n].count >= 0
              /\ (kept[n].count = NaNCount => df[n].count = 0)
              /\ df[n].category = (IF kept[n].category = NaN THEN CAT_UNSPECIFIED
                                   ELSE kept[n].category)
        /\ \A n \in 1..Len(raw) :
              (raw[n].street = NaN \/ raw[n].house = NaN) =>
                  address_key(raw[n].street, raw[n].house) \notin cache_keys(cache)

\* C16: without a cache file load_cache returns the empty dict and raises nothing,
\* and a run started without the file has looked up every key its cache holds.
C16_NoFileLoadsEmpty ==
    ~ disk.exists =>
        /\ load_cache(disk).ok
        /\ load_cache(disk).store = << >>
        /\ (pc \in { "apply", "sleep", "call", "save" } =>
               /\ loaded = << >>
               /\ \A k \in cache_keys(cache) : lookups[k] >= 1)

\* The first run, started without a cache file, has missed on its first row.
C16_Witness ==
    runs = 1 /\ ~ disk.exists /\ pc = "sleep" /\ i = 1 /\ cache = << >>

C17_Step ==
    pc \in { "apply", "sleep", "call" } =>
        /\ \A k \in cache_keys(cache) :
               k \in cache_keys(cache') /\ cache_get(cache', k) = cache_get(cache, k)
        /\ cache_keys(cache') \subseteq cache_keys(cache) \cup { row_key(i) }
        /\ (pc = "apply" /\ row_key(i) \in cache_keys(cache)) =>
               cache' = cache /\ lookups' = lookups /\ pc' \notin { "sleep", "call" }

\* C17: a step of smart_geocode keeps every entry the cache has, adds an entry for
\* the key of its own row at most, and for a key that has an entry (a coordinate
\* or None) changes nothing and calls no lookup.
C17_EntriesAreWriteOnce == [][C17_Step]_vars

\* The second row of a sheet has been answered from the None stored for the first.
C17_Witness ==
    /\ runs = 1 /\ sheet = 1 /\ pc = "save"
    /\ cache = << << "A_1", None >> >>
    /\ coords = << None, None >>
    /\ lookups["A_1"] = 1

\* C18: the external lookup is called, and the cache written, for rows that pass
\* the date and category filter of the run only.
C18_OnlyFilteredRowsAreResolved ==
    /\ pc \in { "sleep", "call" } => in_day_range(df[i]) /\ in_categories(df[i])
    /\ pc \in { "apply", "sleep", "call", "save", "render" } =>
           \A k \in cache_keys(cache) \ cache_keys(loaded) :
               \E n \in 1..Len(df) :
                   row_key(n) = k /\ in_day_range(df[n]) /\ in_categories(df[n])

\* C19: two rows of a run with different (street, house) have different keys, so
\* that neither is answered from the entry of the other.
C19_KeyIsInjective ==
    \A n, m \in 1..Len(coords) :
        << df[n].street, df[n].house >> # << df[m].street, df[m].house >> =>
            row_key(n) # row_key(m)

\* C20: with the deterministic geocoder, every row has the coordinate that a lookup
\* of its own address, distance-checked, gives.
C20_CacheIsTransparent ==
    \A n \in 1..Len(coords) :
        coords[n] = geocode_value(World(address(df[n].street, df[n].house)))

====
